---- MODULE Spec2Model ----
(***************************************************************************)
(* The LanceDB and LanceDBCloud benchmark adapters of VectorDBBench:       *)
(* construction against a vector store, the init() connection scope, and   *)
(* the insert / optimize / search operations, with every call made into    *)
(* the lancedb client (the collaborator) recorded.                          *)
(***************************************************************************)
EXTENDS Integers, Sequences, FiniteSets, TLC

\* ------------------------------------------------------------------ bounds
\* init() calls made on one instance
MaxEnter == 2
\* with-blocks of one instance open at the same time
MaxScopes == 2
\* rows the table can hold
MaxRows == 2

\* ------------------------------------------------------------------ inputs
Variants == {"LanceDB", "LanceDBCloud"}
\* MetricType values handed to the case config; "None" is the unset default
MetricTypes == {"L2", "IP", "None"}
\* the dimension handed to the constructor, and the width of a table that
\* is already in the store
Dims == {2, 4}
Row(e, i) == [vector |-> e, id |-> i]
\* tables that may be in the store before construction
PreRows == {<<>>, <<Row("u", 2)>>}
\* arguments of insert_embeddings
EmbeddingLists == {<<>>, <<"u">>, <<"u", "v">>}
MetadataLists == {<<>>, <<2, 1>>}
\* arguments of search_embedding
Ks == {1, 2}
QueryVectors == {"u"}

\* ------------------------------------------------------------------ state
VARIABLES
  variant,      \* which adapter class the instance is
  case_config,  \* self.case_config
  store,        \* the table named collection_name in the vector store
  pc,           \* "start", "constructed" or "ctor_failed"
  tbl,          \* self.tbl
  scopes,       \* the with self.init() blocks that are open
  entered,      \* init() calls made so far
  calls,        \* collaborator calls made by the last operation
  last          \* the last operation: its arguments and its outcome

vars == <<variant, case_config, store, pc, tbl, scopes, entered, calls, last>>

\* self._scalar_field and self._vector_field
scalar_field == "id"
vector_field == "vector"

\* the store without / with the table
NoTable == [exists |-> FALSE, dim |-> 0, rows |-> <<>>]
Table(d, r) == [exists |-> TRUE, dim |-> d, rows |-> r]

\* self.tbl: the attribute missing, the attribute holding None, a table handle
TblUnset == [kind |-> "unset", id |-> 0]
TblNone == [kind |-> "none", id |-> 0]
Handle(n) == [kind |-> "handle", id |-> n]

\* a collaborator call and whether it raised
Call(n, r) == [name |-> n, raised |-> r]
Count(cs, n) == Cardinality({i \in DOMAIN cs : cs[i].name = n})

\* ------------------------------------------------------------------ config
num_partitions_default == 256
num_sub_vectors_default == 96
nprobes_default == 0
refine_factor_default == 0

LanceDBIndexConfig(m) ==
  [metric_type |-> m, num_partitions |-> num_partitions_default,
   num_sub_vectors |-> num_sub_vectors_default, nprobes |-> nprobes_default,
   refine_factor |-> refine_factor_default]

LanceDBCloudIndexConfig(m) ==
  [metric_type |-> m, num_partitions |-> num_partitions_default,
   num_sub_vectors |-> num_sub_vectors_default, nprobes |-> nprobes_default]

\* a translator whose fallback is the first token instead of the last
parse_metric_fallback_l2(cfg) ==
  IF cfg.metric_type = "IP" THEN "dot"
  ELSE IF cfg.metric_type = "COSINE" THEN "cosine"
  ELSE "L2"

parse_metric(cfg) ==
  IF cfg.metric_type = "L2" THEN "L2"
  ELSE IF cfg.metric_type = "IP" THEN "dot"
  ELSE "cosine"

\* index parameters with the two counts the wrong way round
index_param_swapped(cfg) ==
  [metric |-> parse_metric(cfg), num_partitions |-> cfg.num_sub_vectors,
   num_sub_vectors |-> cfg.num_partitions]

index_param(cfg) ==
  [metric |-> parse_metric(cfg), num_partitions |-> cfg.num_partitions,
   num_sub_vectors |-> cfg.num_sub_vectors]

\* the cloud class has no refine_factor
search_param(v, cfg) ==
  IF v = "LanceDB"
  THEN [metric |-> parse_metric(cfg), nprobes |-> cfg.nprobes,
        refine_factor |-> cfg.refine_factor]
  ELSE [metric |-> parse_metric(cfg), nprobes |-> cfg.nprobes]

\* ------------------------------------------------------------------ __init__
\* the calls of the collaborator that can fail during construction
CtorFailures == {"none", "connect", "drop_table", "create_table"}

\* whether the constructor looks the table up before the drop: the local
\* class evaluates `drop_old and name in db.table_names()`, the cloud class
\* has the test commented out
ctor_lists_before_drop(v, drop_old) == v = "LanceDB" /\ drop_old

\* a constructor that reads the flag the wrong way round
ctor_drops_inverted(v, drop_old, st) == ~drop_old /\ st.exists

\* whether the constructor calls db.drop_table
ctor_drops(v, drop_old, st) ==
  IF v = "LanceDB" THEN drop_old /\ st.exists ELSE TRUE

\* whether the constructor calls db.create_table
ctor_creates(st) == ~st.exists

\* a schema whose vector field is one wider than asked
ctor_schema_table_wider(dim) == Table(dim + 1, <<>>)

\* the table db.create_table makes from the two-field schema
ctor_schema_table(dim) == Table(dim, <<>>)

\* the constructor on a store st: the store it leaves, the calls it made and
\* how it ended; `fail` names the collaborator call that raises, if reached
ctor(v, dim, drop_old, st, fail) ==
  LET c1 == <<Call("connect", fail = "connect")>>
      c2 == IF ctor_lists_before_drop(v, drop_old)
            THEN Append(c1, Call("table_names", FALSE)) ELSE c1
      drops == ctor_drops(v, drop_old, st)
      c3 == IF drops
            THEN Append(c2, Call("drop_table", fail = "drop_table")) ELSE c2
      st1 == IF drops THEN NoTable ELSE st
      c4 == Append(c3, Call("table_names", FALSE))
      creates == ctor_creates(st1)
      c5 == IF creates
            THEN Append(c4, Call("create_table", fail = "create_table"))
            ELSE c4
      st2 == IF creates THEN ctor_schema_table(dim) ELSE st1
  IN  IF fail = "connect"
      THEN [store |-> st, calls |-> c1, outcome |-> "CollabError"]
      ELSE IF drops /\ fail = "drop_table"
      THEN [store |-> st, calls |-> c3, outcome |-> "CollabError"]
      ELSE IF creates /\ fail = "create_table"
      THEN [store |-> st1, calls |-> c5, outcome |-> "CollabError"]
      ELSE [store |-> st2, calls |-> c5, outcome |-> "ok"]

\* the fields of `last` an operation does not use
NoArgs ==
  [dim |-> 0, drop_old |-> FALSE, pre |-> NoTable, embeddings |-> <<>>,
   metadata |-> <<>>, k |-> 0, filters |-> [isNone |-> TRUE, dict |-> {}],
   scope |-> 0, was |-> TblUnset, ret_count |-> 0, ret_err |-> "None",
   ret_ids |-> <<>>]

Op(name, outcome, fields) ==
  [f \in {"op", "outcome"} \cup DOMAIN NoArgs \cup DOMAIN fields |->
     IF f = "op" THEN name
     ELSE IF f = "outcome" THEN outcome
     ELSE IF f \in DOMAIN fields THEN fields[f]
     ELSE NoArgs[f]]

Construct ==
  /\ pc = "start"
  /\ \E dim \in Dims, drop_old \in BOOLEAN, fail \in CtorFailures :
       LET r == ctor(variant, dim, drop_old, store, fail) IN
       /\ store' = r.store
       /\ calls' = r.calls
       /\ pc' = IF r.outcome = "ok" THEN "constructed" ELSE "ctor_failed"
       /\ last' = Op("__init__", r.outcome,
                     [dim |-> dim, drop_old |-> drop_old, pre |-> store])
  /\ UNCHANGED <<variant, case_config, tbl, scopes, entered>>

Init ==
  /\ variant \in Variants
  /\ \E m \in MetricTypes :
       case_config = IF variant = "LanceDB" THEN LanceDBIndexConfig(m)
                     ELSE LanceDBCloudIndexConfig(m)
  /\ store \in {NoTable} \cup {Table(d, r) : d \in Dims, r \in PreRows}
  /\ pc = "start"
  /\ tbl = TblUnset
  /\ scopes = {}
  /\ entered = 0
  /\ calls = <<>>
  /\ last = Op("none", "ok", [dim |-> 0])

\* ------------------------------------------------------------------ init()
\* the calls of the collaborator that can fail while a scope is entered
EnterFailures == {"none", "connect", "open_table"}

\* a scope entry that makes the table instead of opening it
init_enter_creating(n, fail) ==
  IF fail = "connect"
  THEN [tbl |-> TblNone, calls |-> <<Call("connect", TRUE)>>,
        outcome |-> "CollabError"]
  ELSE [tbl |-> IF fail = "open_table" THEN TblNone ELSE Handle(n),
        calls |-> <<Call("connect", FALSE),
                    Call("create_table", fail = "open_table")>>,
        outcome |-> IF fail = "open_table" THEN "CollabError" ELSE "ok"]

\* a scope entry that keeps the handle of the entry before it
init_enter_reusing(n, fail) ==
  IF fail = "connect"
  THEN [tbl |-> TblNone, calls |-> <<Call("connect", TRUE)>>,
        outcome |-> "CollabError"]
  ELSE IF fail = "open_table"
  THEN [tbl |-> TblNone,
        calls |-> <<Call("connect", FALSE), Call("open_table", TRUE)>>,
        outcome |-> "CollabError"]
  ELSE IF n > 1
  THEN [tbl |-> Handle(n - 1), calls |-> <<Call("connect", FALSE)>>,
        outcome |-> "ok"]
  ELSE [tbl |-> Handle(n),
        calls |-> <<Call("connect", FALSE), Call("open_table", FALSE)>>,
        outcome |-> "ok"]

\* init() up to its yield: self.tbl is set to None, then a connection and
\* the table are opened; n numbers the connection and the handle it opens
init_enter(n, fail) ==
  IF fail = "connect"
  THEN [tbl |-> TblNone, calls |-> <<Call("connect", TRUE)>>,
        outcome |-> "CollabError"]
  ELSE IF fail = "open_table"
  THEN [tbl |-> TblNone,
        calls |-> <<Call("connect", FALSE), Call("open_table", TRUE)>>,
        outcome |-> "CollabError"]
  ELSE [tbl |-> Handle(n),
        calls |-> <<Call("connect", FALSE), Call("open_table", FALSE)>>,
        outcome |-> "ok"]

\* an exit that stops after self.tbl = None
init_exit_return_none(t) == TblNone

\* init() after its yield when the with-body returned: self.tbl = None,
\* then del(self.tbl)
init_exit_return(t) == TblUnset

\* init() when the with-body raised: the exception is thrown into the
\* generator at the yield, which has no try/finally, so the statements
\* after the yield are not run
init_exit_raise(t) == t

ScopeEnter ==
  /\ pc = "constructed"
  /\ entered < MaxEnter
  /\ Cardinality(scopes) < MaxScopes
  /\ \E fail \in EnterFailures :
       LET r == init_enter(entered + 1, fail) IN
       /\ tbl' = r.tbl
       /\ calls' = r.calls
       /\ scopes' = IF r.outcome = "ok" THEN scopes \cup {entered + 1}
                    ELSE scopes
       /\ last' = Op("init", r.outcome, [scope |-> entered + 1, was |-> tbl])
  /\ entered' = entered + 1
  /\ UNCHANGED <<variant, case_config, store, pc>>

ScopeExitReturn ==
  /\ \E s \in scopes :
       /\ scopes' = scopes \ {s}
       /\ last' = Op("exit_return", "ok", [scope |-> s, was |-> tbl])
  /\ tbl' = init_exit_return(tbl)
  /\ calls' = <<>>
  /\ UNCHANGED <<variant, case_config, store, pc, entered>>

ScopeExitRaise ==
  /\ \E s \in scopes :
       /\ scopes' = scopes \ {s}
       /\ last' = Op("exit_raise", "BodyError", [scope |-> s, was |-> tbl])
  /\ tbl' = init_exit_raise(tbl)
  /\ calls' = <<>>
  /\ UNCHANGED <<variant, case_config, store, pc, entered>>

\* ------------------------------------------------------------------ hooks
\* a hook that empties the table before a load
ReadyToLoad_truncating ==
  /\ pc = "constructed"
  /\ calls' = <<>>
  /\ last' = Op("ready_to_load", "ok", [was |-> tbl])
  /\ store' = Table(store.dim, <<>>)
  /\ UNCHANGED <<variant, case_config, pc, tbl, scopes, entered>>

\* ready_to_load and ready_to_search: pass
ReadyToLoad ==
  /\ pc = "constructed"
  /\ calls' = <<>>
  /\ last' = Op("ready_to_load", "ok", [was |-> tbl])
  /\ UNCHANGED <<variant, case_config, store, pc, tbl, scopes, entered>>

ReadyToSearch ==
  /\ pc = "constructed"
  /\ calls' = <<>>
  /\ last' = Op("ready_to_search", "ok", [was |-> tbl])
  /\ UNCHANGED <<variant, case_config, store, pc, tbl, scopes, entered>>

\* ------------------------------------------------------------------ optimize
\* `assert self.tbl is not None`: reading a missing attribute raises
\* AttributeError before the comparison is made
tbl_check(t) ==
  IF t.kind = "unset" THEN "AttributeError"
  ELSE IF t.kind = "none" THEN "AssertionError"
  ELSE "ok"

\* whether optimize calls create_index: the call is commented out in the
\* cloud class
optimize_builds(v) == v = "LanceDB"

optimize(v, t, cfg, fail) ==
  IF tbl_check(t) # "ok"
  THEN [calls |-> <<>>, outcome |-> tbl_check(t)]
  ELSE IF ~optimize_builds(v)
  THEN [calls |-> <<>>, outcome |-> "ok"]
  ELSE [calls |-> <<[name |-> "create_index", raised |-> fail,
                     handle |-> t.id,
                     metric |-> index_param(cfg).metric,
                     num_partitions |-> index_param(cfg).num_partitions,
                     num_sub_vectors |-> index_param(cfg).num_sub_vectors]>>,
        outcome |-> IF fail THEN "CollabError" ELSE "ok"]

Optimize ==
  /\ pc = "constructed"
  /\ \E fail \in BOOLEAN :
       LET r == optimize(variant, tbl, case_config, fail) IN
       /\ calls' = r.calls
       /\ last' = Op("optimize", r.outcome, [was |-> tbl])
  /\ UNCHANGED <<variant, case_config, store, pc, tbl, scopes, entered>>

\* ------------------------------------------------------------------ insert
Min(a, b) == IF a < b THEN a ELSE b

\* records that pair the embeddings with the ids taken from the far end
zip_records_crossed(embeddings, metadata) ==
  [i \in 1..Min(Len(embeddings), Len(metadata)) |->
     Row(embeddings[i], metadata[Len(metadata) + 1 - i])]

\* [{vector: e[0], id: e[1]} for e in zip(embeddings, metadata)]
zip_records(embeddings, metadata) ==
  [i \in 1..Min(Len(embeddings), Len(metadata)) |->
     Row(embeddings[i], metadata[i])]

\* a failed insert that still reports the batch as inserted
insert_failed_counted(embeddings, e) ==
  [count |-> Len(embeddings), err |-> e]

\* what insert_embeddings returns when tbl.add raised / returned
insert_failed(embeddings, e) == [count |-> 0, err |-> e]
insert_done(embeddings) == [count |-> Len(embeddings), err |-> "None"]

insert_embeddings(t, st, embeddings, metadata, fail) ==
  IF tbl_check(t) # "ok"
  THEN [store |-> st, calls |-> <<>>, outcome |-> tbl_check(t),
        ret |-> [count |-> 0, err |-> "None"]]
  ELSE IF Len(embeddings) # Len(metadata)
  THEN [store |-> st, calls |-> <<>>, outcome |-> "AssertionError",
        ret |-> [count |-> 0, err |-> "None"]]
  ELSE LET batch == zip_records(embeddings, metadata)
           c == <<[name |-> "add", raised |-> fail, handle |-> t.id,
                   rows |-> batch]>>
       IN  IF fail
           THEN [store |-> st, calls |-> c, outcome |-> "ok",
                 ret |-> insert_failed(embeddings, "e")]
           ELSE [store |-> Table(st.dim, st.rows \o batch), calls |-> c,
                 outcome |-> "ok", ret |-> insert_done(embeddings)]

InsertEmbeddings ==
  /\ pc = "constructed"
  /\ \E embeddings \in EmbeddingLists, metadata \in MetadataLists,
        fail \in BOOLEAN :
       LET r == insert_embeddings(tbl, store, embeddings, metadata, fail) IN
       /\ Len(r.store.rows) <= MaxRows
       /\ store' = r.store
       /\ calls' = r.calls
       /\ last' = Op("insert_embeddings", r.outcome,
                     [embeddings |-> embeddings, metadata |-> metadata,
                      was |-> tbl, pre |-> store,
                      ret_count |-> r.ret.count, ret_err |-> r.ret.err])
  /\ UNCHANGED <<variant, case_config, pc, tbl, scopes, entered>>

\* ------------------------------------------------------------------ search
\* the filters argument: None, or a dict given as its set of <<key, value>>
FiltersNone == [isNone |-> TRUE, dict |-> {}]
Dict(d) == [isNone |-> FALSE, dict |-> d]
FilterValues ==
  {FiltersNone, Dict({}), Dict({<<"metadata", ">= 2">>, <<"id", "2">>}),
   Dict({<<"id", "2">>})}

\* the test written as `if filters is not None:`
truthy_not_none(filters) == ~filters.isNone

\* `if filters:` a dict is true when it is not empty, None is false
truthy(filters) == ~filters.isNone /\ filters.dict # {}

\* filters.get(key): the value, or None when the key is missing
dict_get(filters, key) ==
  IF \E p \in filters.dict : p[1] = key
  THEN [isNone |-> FALSE, s |-> (CHOOSE p \in filters.dict : p[1] = key)[2]]
  ELSE [isNone |-> TRUE, s |-> ""]

\* how an f-string renders a value
format(val) == IF val.isNone THEN "None" ELSE val.s

\* f"{self._scalar_field} {filters.get('metadata')}", as its pieces
where_expr(filters) ==
  <<scalar_field, " ", format(dict_get(filters, "metadata"))>>

\* the query each branch builds: the tuning calls it makes on the builder
\* and the where restriction, each a set with the values it was given
filtered_query(v, cfg, query, k, filters) ==
  [vector |-> query, metric |-> index_param(cfg).metric, limit |-> k,
   select |-> <<scalar_field>>, tuning |-> {},
   where |-> {where_expr(filters)}]

unfiltered_tuning(v, cfg) ==
  IF v = "LanceDB"
  THEN {<<"nprobes", search_param(v, cfg).nprobes>>,
        <<"refine_factor", search_param(v, cfg).refine_factor>>}
  ELSE {}

unfiltered_query(v, cfg, query, k) ==
  [vector |-> query, metric |-> search_param(v, cfg).metric, limit |-> k,
   select |-> <<scalar_field>>, tuning |-> unfiltered_tuning(v, cfg),
   where |-> {}]

build_query(v, cfg, query, k, filters) ==
  IF truthy(filters) THEN filtered_query(v, cfg, query, k, filters)
  ELSE unfiltered_query(v, cfg, query, k)

\* the collaborator: the conditions it can evaluate on a row
valid_expr(e) == e[1] = "id" /\ e[3] \in {">= 2", ">= 1"}
satisfies(row, e) ==
  IF e[3] = ">= 2" THEN row.id >= 2 ELSE row.id >= 1

RECURSIVE select_rows(_, _)
select_rows(rows, q) ==
  IF rows = <<>> THEN <<>>
  ELSE IF \A e \in q.where : satisfies(Head(rows), e)
  THEN <<Head(rows)>> \o select_rows(Tail(rows), q)
  ELSE select_rows(Tail(rows), q)

\* the collaborator's result set: the rows that pass the restriction in
\* its ranking (the table order), cut at the limit
to_arrow(st, q) ==
  LET hits == select_rows(st.rows, q)
  IN  SubSeq(hits, 1, Min(Len(hits), q.limit))

\* a result column put in ascending order
column_ids_sorted(res) ==
  LET ids == {res[i].id : i \in DOMAIN res}
      RECURSIVE asc(_)
      asc(S) == IF S = {} THEN <<>>
                ELSE LET m == CHOOSE x \in S : \A y \in S : x <= y
                     IN  <<m>> \o asc(S \ {m})
  IN  asc(ids)

\* res.column(self._scalar_field).to_pylist()
column_ids(res) == [i \in DOMAIN res |-> res[i].id]

\* a search that answers a failed query with an empty list
query_raised_swallowed(c) == [calls |-> c, outcome |-> "ok", ret |-> <<>>]

\* to_arrow() raising inside search_embedding: there is no try/except
\* around the query, the exception leaves the method
query_raised(c) == [calls |-> c, outcome |-> "CollabError", ret |-> <<>>]

\* search_embedding has no check of self.tbl: a missing attribute and
\* None.search both raise AttributeError
search_embedding(v, t, cfg, st, query, k, filters, fail) ==
  IF t.kind # "handle"
  THEN [calls |-> <<>>, outcome |-> "AttributeError", ret |-> <<>>]
  ELSE LET q == build_query(v, cfg, query, k, filters)
           raises == fail \/ \E e \in q.where : ~valid_expr(e)
           res == IF raises THEN <<>> ELSE to_arrow(st, q)
           c == <<[name |-> "query", raised |-> raises, handle |-> t.id,
                   q |-> q, result |-> res]>>
       IN  IF raises
           THEN query_raised(c)
           ELSE [calls |-> c, outcome |-> "ok", ret |-> column_ids(res)]

SearchEmbedding ==
  /\ pc = "constructed"
  /\ \E query \in QueryVectors, k \in Ks, filters \in FilterValues,
        fail \in BOOLEAN :
       LET r == search_embedding(variant, tbl, case_config, store, query, k,
                                 filters, fail) IN
       /\ calls' = r.calls
       /\ last' = Op("search_embedding", r.outcome,
                     [k |-> k, filters |-> filters, was |-> tbl,
                      ret_ids |-> r.ret])
  /\ UNCHANGED <<variant, case_config, store, pc, tbl, scopes, entered>>

\* ------------------------------------------------------------------ config calls
\* the values a case config can be built with: every metric type, the
\* unset one ("None") and one outside the three the translator names,
\* and two values of each knob
AllMetricTypes == {"L2", "IP", "COSINE", "None", "OTHER"}
PartitionCounts == {256, 16}
SubVectorCounts == {96, 8}
ProbeCounts == {0, 10}
RefineFactors == {0, 5}

CaseConfigs(v) ==
  IF v = "LanceDB"
  THEN {[LanceDBIndexConfig(m) EXCEPT !.num_partitions = p,
           !.num_sub_vectors = sv, !.nprobes = n, !.refine_factor = r] :
          m \in AllMetricTypes, p \in PartitionCounts, sv \in SubVectorCounts,
          n \in ProbeCounts, r \in RefineFactors}
  ELSE {[LanceDBCloudIndexConfig(m) EXCEPT !.num_partitions = p,
           !.num_sub_vectors = sv, !.nprobes = n] :
          m \in AllMetricTypes, p \in PartitionCounts, sv \in SubVectorCounts,
          n \in ProbeCounts}

ParseMetric ==
  /\ calls' = <<>>
  /\ last' = Op("parse_metric", "ok",
                [ret_token |-> parse_metric(case_config)])
  /\ UNCHANGED <<variant, case_config, store, pc, tbl, scopes, entered>>

IndexParam ==
  /\ calls' = <<>>
  /\ last' = Op("index_param", "ok", [ret_map |-> index_param(case_config)])
  /\ UNCHANGED <<variant, case_config, store, pc, tbl, scopes, entered>>

SearchParam ==
  /\ calls' = <<>>
  /\ last' = Op("search_param", "ok",
                [ret_map |-> search_param(variant, case_config)])
  /\ UNCHANGED <<variant, case_config, store, pc, tbl, scopes, entered>>

\* a case config of either class, before anything is done with it
InitConfig ==
  /\ variant \in Variants
  /\ case_config \in CaseConfigs(variant)
  /\ store = NoTable
  /\ pc = "start"
  /\ tbl = TblUnset
  /\ scopes = {}
  /\ entered = 0
  /\ calls = <<>>
  /\ last = Op("none", "ok", [dim |-> 0])

NextConfig ==
  \/ ParseMetric
  \/ IndexParam
  \/ SearchParam

SpecConfig == InitConfig /\ [][NextConfig]_vars

Next ==
  \/ Construct
  \/ ScopeEnter
  \/ ScopeExitReturn
  \/ ScopeExitRaise
  \/ ReadyToLoad
  \/ ReadyToSearch
  \/ Optimize
  \/ InsertEmbeddings
  \/ SearchEmbedding
  \/ ParseMetric
  \/ IndexParam
  \/ SearchParam

Spec == Init /\ [][Next]_vars

\* ------------------------------------------------------------------ claims
Constructed == last.op = "__init__" /\ last.outcome = "ok"
ScopeExits == {"exit_return", "exit_raise"}
ScopedOps == {"insert_embeddings", "optimize", "search_embedding"}
Issued(n) == \E i \in DOMAIN calls : calls[i].name = n

\* C1: when a scope opened with init() ends, by a return of the body or by
\* an error in it, the instance holds no table handle; no state has every
\* scope closed and a handle still held.
C1_HandleReleasedOnEveryExit ==
  /\ last.op \in ScopeExits => tbl.kind # "handle"
  /\ (pc = "constructed" /\ scopes = {}) => tbl.kind # "handle"

\* C2: a construction with drop_old = FALSE on a store that has the table
\* makes no drop_table call and leaves the table and its rows as they were.
C2_KeepsExistingWithoutDropOld ==
  (last.op = "__init__" /\ ~last.drop_old /\ last.pre.exists) =>
    /\ ~Issued("drop_table")
    /\ store = last.pre

\* C3: a construction ends without error unless connect or create_table
\* raised (or the drop of an existing table that drop_old asked for), it
\* leaves the table existing, and on a store without the table it makes
\* exactly one create_table call and no drop_table call.
C3_ConstructionCreatesAbsent ==
  last.op = "__init__" =>
    /\ last.outcome = "ok" => store.exists
    /\ ~last.pre.exists =>
         /\ ~Issued("drop_table")
         /\ last.outcome = "ok" => Count(calls, "create_table") = 1
    /\ last.outcome # "ok" =>
         \/ calls[Len(calls)].name \in {"connect", "create_table"}
         \/ /\ calls[Len(calls)].name = "drop_table"
            /\ last.pre.exists /\ last.drop_old

\* C4: a successful construction with drop_old = TRUE on a store that has
\* the table calls drop_table exactly once, then create_table, and leaves
\* the table existing with none of its earlier rows.
C4_DropThenCreate ==
  (Constructed /\ last.drop_old /\ last.pre.exists) =>
    /\ Count(calls, "drop_table") = 1
    /\ Count(calls, "create_table") = 1
    /\ \A i, j \in DOMAIN calls :
         (calls[i].name = "drop_table" /\ calls[j].name = "create_table")
           => i < j
    /\ store.exists
    /\ store.rows = <<>>

C4_Witness ==
  /\ Constructed /\ last.drop_old /\ last.pre.exists
  /\ last.pre.rows # <<>>
  /\ Issued("drop_table")

\* C5 as claimed: after every successful construction the table's vector
\* field has the width handed to the constructor.
C5_WidthAlwaysMatches ==
  Constructed => store.exists /\ store.dim = last.dim

\* C5 as amended: after a successful construction the table has the width
\* handed to the constructor when the constructor created it (the table was
\* absent or was dropped first); a table that is kept, which only the local
\* class with drop_old = FALSE does, is left as it was, its width included.
C5_WidthOfCreatedTable ==
  Constructed =>
    /\ store.exists
    /\ IF Issued("create_table")
       THEN store.dim = last.dim /\ store.rows = <<>>
       ELSE /\ store = last.pre
            /\ variant = "LanceDB" /\ ~last.drop_old /\ last.pre.exists

C5_Witness ==
  /\ Constructed /\ Issued("create_table")
  /\ last.pre.exists /\ last.pre.dim # last.dim
  /\ store.dim = last.dim

\* C6: insert_embeddings, optimize and search_embedding called while no
\* scope is open fail with AssertionError and call nothing in the
\* collaborator.
C6_NoOperationOutsideScope ==
  (last.op \in ScopedOps /\ scopes = {}) =>
    /\ last.outcome = "AssertionError"
    /\ calls = <<>>

\* C7: inside an open scope, insert_embeddings with lists of equal length
\* never lets a failure of tbl.add out as an exception: when add raised it
\* returns (0, error) with an error, when add returned it returns
\* (len(embeddings), None); with the scope's handle held it does call add.
C7_InsertReturnsResultPair ==
  (last.op = "insert_embeddings" /\ scopes # {}
     /\ Len(last.embeddings) = Len(last.metadata)) =>
    /\ last.outcome # "CollabError"
    /\ last.was.kind = "handle" => Count(calls, "add") = 1
    /\ \A i \in DOMAIN calls :
         /\ calls[i].name = "add"
         /\ last.outcome = "ok"
         /\ IF calls[i].raised
            THEN last.ret_count = 0 /\ last.ret_err # "None"
            ELSE last.ret_count = Len(last.embeddings)
                 /\ last.ret_err = "None"

C7_Witness ==
  /\ last.op = "insert_embeddings" /\ scopes # {}
  /\ Len(last.embeddings) = 2 /\ Len(last.metadata) = 2
  /\ Issued("add") /\ calls[1].raised
  /\ last.ret_count = 0 /\ last.ret_err = "e"

\* C8: insert_embeddings with lists of different lengths makes no add
\* call, leaves the table's rows as they were and fails with
\* AssertionError, not with a (0, error) return.
C8_MismatchRejectedByAssertion ==
  (last.op = "insert_embeddings"
     /\ Len(last.embeddings) # Len(last.metadata)) =>
    /\ calls = <<>>
    /\ store = last.pre
    /\ last.outcome = "AssertionError"

\* C9: the query search_embedding issues without filters carries the
\* metric and the nprobes of search_param() (and its refine_factor in the
\* local class), limit k, the projection onto the id field and no where.
C9_UnfilteredQueryCarriesTuning ==
  (last.op = "search_embedding" /\ last.filters.isNone /\ calls # <<>>) =>
    LET q == calls[1].q IN
    /\ q.metric = parse_metric(case_config)
    /\ <<"nprobes", case_config.nprobes>> \in q.tuning
    /\ variant = "LanceDB" =>
         <<"refine_factor", case_config.refine_factor>> \in q.tuning
    /\ q.limit = last.k
    /\ q.select = <<"id">>
    /\ q.where = {}

\* the restriction built from a filters dict: "id", a blank and the text of
\* its 'metadata' entry, None when it has none
ExpectedWhere(filters) ==
  IF \E p \in filters.dict : p[1] = "metadata"
  THEN {<<"id", " ", p[2]>> : p \in {x \in filters.dict : x[1] = "metadata"}}
  ELSE {<<"id", " ", "None">>}

FilteredShape(q) ==
  /\ q.where = ExpectedWhere(last.filters)
  /\ q.limit = last.k
  /\ q.select = <<"id">>
  /\ q.tuning = {}

\* C10 as claimed: the query search_embedding issues for any filters value
\* other than None is restricted by where to "id" followed by the filter's
\* condition, limited to k, projected onto id, without nprobes and
\* refine_factor.
C10_EveryPresentFilterRestricts ==
  (last.op = "search_embedding" /\ ~last.filters.isNone /\ calls # <<>>) =>
    FilteredShape(calls[1].q)

\* C10 as amended: that holds for every filters dict that is not empty; for
\* an empty dict the query is the unfiltered one, without a where.
C10_NonEmptyFilterRestricts ==
  (last.op = "search_embedding" /\ ~last.filters.isNone /\ calls # <<>>) =>
    IF last.filters.dict # {}
    THEN FilteredShape(calls[1].q)
    ELSE calls[1].q.where = {} /\ calls[1].q.limit = last.k

C10_Witness ==
  /\ last.op = "search_embedding" /\ last.outcome = "ok" /\ scopes # {}
  /\ last.filters.dict # {}
  /\ calls[1].q.where = {<<"id", " ", ">= 2">>}
  /\ last.ret_ids = <<2>>

\* the instance holds a table handle while a scope is open
InScope == scopes # {} /\ tbl.kind = "handle"

\* C11: optimize called inside an open scope issues exactly one
\* create_index call, on the handle the instance holds, with the metric,
\* num_partitions and num_sub_vectors of index_param(), in both classes.
C11_OptimizeBuildsIndex ==
  (last.op = "optimize" /\ InScope) =>
    /\ Len(calls) = 1
    /\ calls[1].name = "create_index"
    /\ calls[1].handle = tbl.id
    /\ calls[1].metric = parse_metric(case_config)
    /\ calls[1].num_partitions = case_config.num_partitions
    /\ calls[1].num_sub_vectors = case_config.num_sub_vectors

\* C12: search_embedding returns the id column of the collaborator's
\* result set as it is, same length and same order; the query carries
\* limit k in both branches, so the collaborator, which keeps to the limit,
\* gives back at most k ids.
C12_ReturnsResultIdsInOrder ==
  (last.op = "search_embedding" /\ last.outcome = "ok") =>
    /\ Len(calls) = 1 /\ calls[1].name = "query"
    /\ calls[1].q.limit = last.k
    /\ Len(last.ret_ids) = Len(calls[1].result)
    /\ \A i \in DOMAIN last.ret_ids : last.ret_ids[i] = calls[1].result[i].id
    /\ Len(last.ret_ids) <= last.k

C12_Witness ==
  /\ last.op = "search_embedding" /\ last.outcome = "ok"
  /\ last.k = 2
  /\ last.ret_ids = <<2, 1>>

\* C13: when the collaborator's query raises, with or without filters,
\* search_embedding ends with that error and returns no list of ids.
C13_QueryFailurePropagates ==
  (last.op = "search_embedding" /\ \E i \in DOMAIN calls : calls[i].raised) =>
    /\ last.outcome = "CollabError"
    /\ last.ret_ids = <<>>

C13_Witness ==
  /\ last.op = "search_embedding" /\ last.outcome = "CollabError"
  /\ calls[1].name = "query" /\ calls[1].raised
  /\ calls[1].q.where # {}
  /\ store.rows # <<>>

\* C14: parse_metric never fails and gives "L2" for L2, "dot" for IP and
\* "cosine" for COSINE, for the unset metric and for any other value, in
\* the config class of either adapter.
C14_MetricTokens ==
  last.op = "parse_metric" =>
    /\ last.outcome = "ok"
    /\ case_config.metric_type = "L2" => last.ret_token = "L2"
    /\ case_config.metric_type = "IP" => last.ret_token = "dot"
    /\ case_config.metric_type \in {"COSINE", "None", "OTHER"}
         => last.ret_token = "cosine"

C14_Witness ==
  /\ last.op = "parse_metric"
  /\ variant = "LanceDBCloud"
  /\ case_config.metric_type = "OTHER"
  /\ last.ret_token = "cosine"

\* the token the metric type of the config stands for
TokenOf(cfg) ==
  CASE cfg.metric_type = "L2" -> "L2"
    [] cfg.metric_type = "IP" -> "dot"
    [] OTHER -> "cosine"

\* C15: no step, of the config calls or of the adapter, changes the case
\* config; index_param() returns the map with exactly metric,
\* num_partitions and num_sub_vectors, and search_param() its map, each
\* holding the config's values and the same metric token, so a call
\* repeated at once or after other operations returns the same map.
C15_ParamsArePure ==
  [][/\ case_config' = case_config
     /\ last'.op = "index_param" =>
          /\ DOMAIN last'.ret_map
               = {"metric", "num_partitions", "num_sub_vectors"}
          /\ last'.ret_map.metric = TokenOf(case_config)
          /\ last'.ret_map.num_partitions = case_config.num_partitions
          /\ last'.ret_map.num_sub_vectors = case_config.num_sub_vectors
     /\ last'.op = "search_param" =>
          /\ last'.ret_map.metric = TokenOf(case_config)
          /\ last'.ret_map.nprobes = case_config.nprobes
          /\ variant = "LanceDB" =>
               last'.ret_map.refine_factor = case_config.refine_factor
     /\ (last.op = last'.op /\ last.op \in {"index_param", "search_param"})
          => last'.ret_map = last.ret_map
    ]_vars

C15_Witness ==
  /\ last.op = "index_param"
  /\ InScope /\ store.rows # <<>>
  /\ last.ret_map.metric = "dot"

\* C16: insert_embeddings with lists of equal length, called while the
\* instance holds a handle, issues exactly one add call, whether the call
\* raises or not, and
\* the batch has len(embeddings) records in input order, the i-th made of
\* the i-th embedding and the i-th id.
C16_OneBatchInInputOrder ==
  (last.op = "insert_embeddings" /\ tbl.kind = "handle"
     /\ Len(last.embeddings) = Len(last.metadata)) =>
    /\ Len(calls) = 1
    /\ calls[1].name = "add"
    /\ Len(calls[1].rows) = Len(last.embeddings)
    /\ \A i \in DOMAIN calls[1].rows :
         calls[1].rows[i]
           = [vector |-> last.embeddings[i], id |-> last.metadata[i]]

C16_Witness ==
  /\ last.op = "insert_embeddings" /\ InScope
  /\ last.embeddings = <<"u", "v">> /\ last.metadata = <<2, 1>>
  /\ Len(calls) = 1 /\ calls[1].raised
  /\ calls[1].rows = <<Row("u", 2), Row("v", 1)>>

\* C17: once the adapter is constructed no operation calls drop_table or
\* create_table, and the table stays in the store with its width.
C17_OnlyConstructorDropsOrCreates ==
  [][pc = "constructed" =>
       /\ \A i \in DOMAIN calls' :
            calls'[i].name \notin {"drop_table", "create_table"}
       /\ store'.exists
       /\ store'.dim = store.dim
    ]_vars

C17_Witness ==
  /\ last.op = "exit_raise" /\ scopes = {}
  /\ store.exists /\ store.rows # <<>>
  /\ entered = 2

\* C18: ready_to_load and ready_to_search call nothing and change nothing;
\* insert_embeddings, optimize and search_embedding called inside an open
\* scope leave the handle and the open scopes as they were, also when the
\* insert returned (0, error).
C18_OperationsKeepHandle ==
  [][/\ last'.op \in {"ready_to_load", "ready_to_search"} =>
          /\ calls' = <<>>
          /\ UNCHANGED <<variant, case_config, store, pc, tbl, scopes,
                         entered>>
     /\ (last'.op \in ScopedOps /\ InScope) =>
          /\ tbl' = tbl
          /\ scopes' = scopes
    ]_vars

C18_Witness ==
  /\ last.op = "insert_embeddings" /\ InScope
  /\ last.ret_count = 0 /\ last.ret_err = "e"
  /\ store.rows # <<>>

\* C19 as claimed: whenever a scope of the instance is open, also with
\* another scope entered or exited meanwhile, the instance holds a handle.
C19_OpenScopeKeepsHandle ==
  (pc = "constructed" /\ scopes # {}) => tbl.kind = "handle"

\* C19 as amended: the instance has one handle slot for all its scopes.
\* No operation other than a scope entry or a scope exit changes it; an
\* entry puts the handle it opened there, or None when it fails, and a
\* normal exit of any scope removes it, so a scope keeps its handle until
\* its own exit only while no other scope is entered or exited.
C19_OneSlotForAllScopes ==
  [][/\ last'.op \notin {"init"} \cup ScopeExits => tbl' = tbl
     /\ last'.op = "init" =>
          tbl' = IF last'.outcome = "ok" THEN Handle(last'.scope)
                 ELSE TblNone
     /\ last'.op = "exit_return" => tbl' = TblUnset
    ]_vars

C19_Witness ==
  /\ last.op = "exit_return"
  /\ entered = 2 /\ scopes = {1}
  /\ last.was = Handle(2)
  /\ tbl = TblUnset

\* C20: a scope entry whose connect or open_table raises ends with that
\* error, opens no scope and leaves self.tbl None, whatever it held before;
\* a scope entry that succeeds has called connect and open_table itself and
\* holds a handle that was not held before.
C20_EntryFailureLeavesNone ==
  last.op = "init" =>
    IF last.outcome # "ok"
    THEN /\ last.outcome = "CollabError"
         /\ calls[Len(calls)].raised
         /\ calls[Len(calls)].name \in {"connect", "open_table"}
         /\ tbl = TblNone
         /\ last.scope \notin scopes
    ELSE /\ Count(calls, "connect") = 1 /\ Count(calls, "open_table") = 1
         /\ \A i \in DOMAIN calls : ~calls[i].raised
         /\ tbl = Handle(last.scope)
         /\ tbl # last.was
         /\ last.scope \in scopes

C20_Witness ==
  /\ last.op = "init" /\ last.outcome = "CollabError"
  /\ last.was.kind = "handle"
  /\ scopes = {}
  /\ tbl = TblNone

====
